---- MODULE Spec2Model ----
(***************************************************************************)
(* GenericMatcher (edsnlp/pipelines/generic/generic.py): attribute         *)
(* resolution at construction time, the exact/fuzzy + regex matching pass   *)
(* of process, the overlap filter and the write-back of __call__.           *)
(*                                                                         *)
(* Strings whose letters matter (the attribute values, which the code      *)
(* upper-cases) are sequences of one-letter strings; labels and keys, which *)
(* the code only compares, are plain strings.                               *)
(***************************************************************************)
EXTENDS Integers, Sequences, FiniteSets, TLC

VARIABLES
    cfg,       \* the arguments of GenericMatcher.__init__
    comp,      \* the component: what __init__ has built so far
    doc,       \* the immutable part of the document (tokens, engine reports)
    ents,      \* doc.ents, the document's annotation list
    prevEnts,  \* doc.ents as it was before the last call
    visited,   \* the scopes the last process() scanned, in scan order
    returned,  \* what the last process() returned
    outcome,   \* how the last __call__ ended
    ncalls     \* number of __call__s made on the document

vars == <<cfg, comp, doc, ents, prevEnts, visited, returned, outcome, ncalls>>

(***************************************************************************)
(* Bounds of the model.                                                     *)
(***************************************************************************)
NTokens == 4      \* tokens of a document
SentLen == 2      \* tokens per sentence (the last sentence may be shorter)
MatchEnd == 3     \* Spec: the matches lie in the first MatchEnd tokens
MaxCand == 2      \* Spec: matches the two engines report on a document
FilterCand == 3   \* SpecFilter: matches the two engines report on a document
MaxCalls == 2     \* calls of the component on one document

(***************************************************************************)
(* Module constants of generic.py.                                          *)
(***************************************************************************)
TERM_ATTR == "term_attr"
DEFAULT_ATTR == <<"N", "O", "R", "M">>

TEXT == <<"T", "E", "X", "T">>
NORM == <<"N", "O", "R", "M">>
LOWER == <<"L", "O", "W", "E", "R">>

(***************************************************************************)
(* str.upper(), letter by letter.                                           *)
(***************************************************************************)
UpperChar(c) ==
    CASE c = "t" -> "T" [] c = "e" -> "E" [] c = "x" -> "X"
      [] c = "n" -> "N" [] c = "o" -> "O" [] c = "r" -> "R"
      [] c = "m" -> "M" [] c = "l" -> "L" [] c = "w" -> "W"
      [] OTHER -> c

Upper(s) == [i \in 1..Len(s) |-> UpperChar(s[i])]

(***************************************************************************)
(* _to_dict_of_lists: None becomes the empty dict, a bare string becomes a  *)
(* one-element list.  A dict is a function on its keys; a value is tagged   *)
(* with its Python type.                                                    *)
(***************************************************************************)
EmptyDict == [k \in {} |-> <<>>]

ToDictOfLists(d) ==
    IF d.kind = "none" THEN EmptyDict
    ELSE [k \in DOMAIN d.d |->
            IF d.d[k].kind = "str" THEN <<d.d[k].s>> ELSE d.d[k].l]

(***************************************************************************)
(* _prepare_attr.  The result says whether ValueError was raised, the       *)
(* resolved map (when it was not) and the warnings logged.                  *)
(***************************************************************************)
PrepareAttrKeys(regex) == DOMAIN regex \cup {TERM_ATTR}

\* variant: the given value is taken as it is, not upper-cased
PrepareAttrStrAsGiven(attr, regex, pipe_names) ==
    [raised |-> FALSE,
     attr |-> [k \in PrepareAttrKeys(regex) |-> attr.s],
     warnings |-> {}]

PrepareAttrStr(attr, regex, pipe_names) ==
    [raised |-> FALSE,
     attr |-> [k \in PrepareAttrKeys(regex) |-> Upper(attr.s)],
     warnings |-> {}]

PrepareAttrDict(attr, regex, pipe_names) ==
    LET upper == [k \in DOMAIN attr.d |-> Upper(attr.d[k])]
        filled == [k \in DOMAIN upper \cup PrepareAttrKeys(regex) |->
                      IF k \in DOMAIN upper THEN upper[k] ELSE DEFAULT_ATTR]
        diff == (DOMAIN filled \ DOMAIN regex) \ {TERM_ATTR}
        w1 == IF diff # {} THEN {"ignored_keys"} ELSE {}
        vals == {filled[k] : k \in DOMAIN regex}
        vals2 == vals \cup {filled[TERM_ATTR]}
        w2 == IF NORM \in vals2 /\ "normaliser" \notin pipe_names
              THEN {"no_normaliser"} ELSE {}
    IN  IF vals \ {NORM, TEXT} # {}
        THEN [raised |-> TRUE, attr |-> EmptyDict, warnings |-> w1]
        ELSE [raised |-> FALSE, attr |-> filled, warnings |-> w1 \cup w2]

PrepareAttr(attr, regex, pipe_names) ==
    IF attr.kind = "str"
    THEN PrepareAttrStr(attr, regex, pipe_names)
    ELSE PrepareAttrDict(attr, regex, pipe_names)

(***************************************************************************)
(* _create_matcher: the engine for the terms and the attribute it matches   *)
(* on; fuzzy matching logs the performance warning.                         *)
(***************************************************************************)
CreateMatcher(fuzzy, term_attr) ==
    [engine |-> IF fuzzy THEN "FuzzyMatcher" ELSE "PhraseMatcher",
     attr |-> term_attr,
     warnings |-> IF fuzzy THEN {"fuzzy_slow"} ELSE {}]

(***************************************************************************)
(* _build_patterns: one registration per term label in the term engine and  *)
(* one per regex label, tagged with that label's attribute, in the regex    *)
(* engine.                                                                  *)
(***************************************************************************)
BuildPatterns(terms, regex, attr) ==
    [terms |-> {<<k, terms[k]>> : k \in DOMAIN terms},
     regex |-> {<<k, regex[k], attr[k]>> : k \in DOMAIN regex}]

NoPatterns == [terms |-> {}, regex |-> {}]

(***************************************************************************)
(* __init__ as a whole: the component it leaves behind.                     *)
(***************************************************************************)
NewComp ==
    [state |-> "new", attr |-> EmptyDict, matcher |-> "none",
     matcherAttr |-> <<>>, patterns |-> NoPatterns, warnings |-> {},
     fuzzy |-> FALSE, filter_matches |-> FALSE, on_ents_only |-> FALSE]

Constructed(c) ==
    LET terms == ToDictOfLists(c.terms)
        regex == ToDictOfLists(c.regex)
        pa == PrepareAttr(c.attr, regex, c.pipe_names)
        m == CreateMatcher(c.fuzzy, pa.attr[TERM_ATTR])
    IN  IF pa.raised
        THEN [NewComp EXCEPT !.state = "error", !.warnings = pa.warnings,
                             !.fuzzy = c.fuzzy,
                             !.filter_matches = c.filter_matches,
                             !.on_ents_only = c.on_ents_only]
        ELSE [state |-> "built", attr |-> pa.attr, matcher |-> m.engine,
              matcherAttr |-> m.attr,
              patterns |-> BuildPatterns(terms, regex, pa.attr),
              warnings |-> pa.warnings \cup m.warnings,
              fuzzy |-> c.fuzzy, filter_matches |-> c.filter_matches,
              on_ents_only |-> c.on_ents_only]

Construct ==
    /\ comp.state = "new"
    /\ comp' = Constructed(cfg)
    /\ UNCHANGED <<cfg, doc, ents, prevEnts, visited, returned, outcome, ncalls>>

(***************************************************************************)
(* The document.  Tokens are numbered from 0; sentence k holds the tokens   *)
(* k*SentLen .. (k+1)*SentLen-1.  A span is a labelled half-open token      *)
(* range [start, end).                                                      *)
(***************************************************************************)
Tokens == 0..(NTokens - 1)

Ranges == {r \in Tokens \X (1..NTokens) : r[1] < r[2]}

MkSpan(label, start, end) == [label |-> label, start |-> start, end |-> end]

Min(a, b) == IF a < b THEN a ELSE b

\* variant: the sentence is taken at the span's end index
SentAtEnd(span) ==
    LET k == span.end \div SentLen
    IN  MkSpan("", Min(k * SentLen, NTokens), Min((k + 1) * SentLen, NTokens))

\* Span.sent: the sentence that holds the span's first token, as a span
Sent(span) ==
    LET k == span.start \div SentLen
    IN  MkSpan("", k * SentLen, Min((k + 1) * SentLen, NTokens))

WholeDoc == MkSpan("", 0, NTokens)

Within(m, scope) == scope.start <= m.start /\ m.end <= scope.end

Overlap(a, b) == a.start < b.end /\ b.start < a.end

Range(seq) == {seq[i] : i \in 1..Len(seq)}

RECURSIVE Concat(_)
Concat(seqs) == IF seqs = <<>> THEN <<>> ELSE Head(seqs) \o Concat(Tail(seqs))

(***************************************************************************)
(* The matching engines (external).  The document carries what each engine  *)
(* finds on it, in the engine's order; a scan of a sentence reports the     *)
(* matches that lie in the sentence.  The exact engine names a label by its *)
(* hash in the vocabulary's string store, the fuzzy engine by the label     *)
(* itself, followed by the similarity ratio.                                *)
(***************************************************************************)
StringHash(label) == IF label = "drug" THEN 7001 ELSE 7002

VocabStrings(id) == IF id = 7001 THEN "drug" ELSE "dose"

InScope(matches, scope) ==
    LET T(m) == Within(m, scope) IN SelectSeq(matches, T)

Matcher(c, d, scope) ==
    LET found == InScope(d.termMatches, scope)
    IN  [i \in 1..Len(found) |->
            IF c.fuzzy
            THEN <<found[i].label, found[i].start, found[i].end, 100>>
            ELSE <<StringHash(found[i].label), found[i].start, found[i].end>>]

RegexMatcher(c, d, scope) == InScope(d.regexMatches, scope)

(***************************************************************************)
(* spacy.util.filter_spans, as process calls it: sort by (length, -start)   *)
(* descending (Python's sort is stable, also with reverse=True), keep a     *)
(* span when neither its first nor its last token is taken, return the kept *)
(* spans sorted by start.                                                   *)
(***************************************************************************)
\* variant: the key is the length alone
GetSortKeyLengthOnly(span) == <<span.end - span.start, 0>>

GetSortKey(span) == <<span.end - span.start, 0 - span.start>>

KeyGreater(k1, k2) == k1[1] > k2[1] \/ (k1[1] = k2[1] /\ k1[2] > k2[2])

\* x goes before the first element it is strictly greater than
RECURSIVE InsertDesc(_, _)
InsertDesc(sorted, x) ==
    IF sorted = <<>> THEN <<x>>
    ELSE IF KeyGreater(GetSortKey(x), GetSortKey(Head(sorted)))
         THEN <<x>> \o sorted
         ELSE <<Head(sorted)>> \o InsertDesc(Tail(sorted), x)

RECURSIVE SortedReverse(_)
SortedReverse(spans) ==
    IF spans = <<>> THEN <<>>
    ELSE InsertDesc(SortedReverse(SubSeq(spans, 1, Len(spans) - 1)),
                    spans[Len(spans)])

RECURSIVE InsertByStart(_, _)
InsertByStart(sorted, x) ==
    IF sorted = <<>> THEN <<x>>
    ELSE IF x.start < Head(sorted).start
         THEN <<x>> \o sorted
         ELSE <<Head(sorted)>> \o InsertByStart(Tail(sorted), x)

RECURSIVE SortedByStart(_)
SortedByStart(spans) ==
    IF spans = <<>> THEN <<>>
    ELSE InsertByStart(SortedByStart(SubSeq(spans, 1, Len(spans) - 1)),
                       spans[Len(spans)])

\* variant: one free end is enough
AcceptsEither(span, seen_tokens) ==
    span.start \notin seen_tokens \/ (span.end - 1) \notin seen_tokens

Accepts(span, seen_tokens) ==
    span.start \notin seen_tokens /\ (span.end - 1) \notin seen_tokens

RECURSIVE Greedy(_, _, _)
Greedy(sorted_spans, result, seen_tokens) ==
    IF sorted_spans = <<>> THEN result
    ELSE LET span == Head(sorted_spans)
         IN  IF Accepts(span, seen_tokens)
             THEN Greedy(Tail(sorted_spans), Append(result, span),
                         seen_tokens \cup (span.start..(span.end - 1)))
             ELSE Greedy(Tail(sorted_spans), result, seen_tokens)

FilterSpans(spans) == SortedByStart(Greedy(SortedReverse(spans), <<>>, {}))

(***************************************************************************)
(* process.  `order` is the order in which the loop meets the elements of   *)
(* set([ent.sent for ent in doc.ents]).                                     *)
(***************************************************************************)
EntSents(e) == [i \in 1..Len(e) |-> Sent(e[i])]

\* variant: the loop runs over the list itself
IterOrdersOfList(list) == {list}

\* set(list) keeps one of each element; the loop may meet them in any order
IterOrders(list) ==
    LET S == Range(list)
    IN  {o \in [1..Cardinality(S) -> S] :
            \A i, j \in DOMAIN o : i # j => o[i] # o[j]}

\* variant: without entities the whole document is scanned
ScopesWholeDocWhenEmpty(c, e, order) ==
    IF c.on_ents_only /\ order # <<>> THEN order ELSE <<WholeDoc>>

Scopes(c, e, order) == IF c.on_ents_only THEN order ELSE <<WholeDoc>>

ToSpan(c, match) ==
    LET m == SubSeq(match, 1, 3)
        match_id == IF ~c.fuzzy THEN VocabStrings(m[1]) ELSE m[1]
    IN  MkSpan(match_id, m[2], m[3])

\* variant: the regex spans come first
CandidatesRegexFirst(c, d, scopes) ==
    LET matches == Concat([i \in 1..Len(scopes) |-> Matcher(c, d, scopes[i])])
        regex_matches ==
            Concat([i \in 1..Len(scopes) |-> RegexMatcher(c, d, scopes[i])])
        spans == [i \in 1..Len(matches) |-> ToSpan(c, matches[i])]
    IN  regex_matches \o spans

Candidates(c, d, scopes) ==
    LET matches == Concat([i \in 1..Len(scopes) |-> Matcher(c, d, scopes[i])])
        regex_matches ==
            Concat([i \in 1..Len(scopes) |-> RegexMatcher(c, d, scopes[i])])
        spans == [i \in 1..Len(matches) |-> ToSpan(c, matches[i])]
    IN  spans \o regex_matches

Process(c, d, scopes) ==
    LET spans == Candidates(c, d, scopes)
    IN  IF c.filter_matches THEN FilterSpans(spans) ELSE spans

\* an engine raises on this document as soon as it is run on any part of it
ProcessRaises(d, scopes) == d.raises /\ scopes # <<>>

(***************************************************************************)
(* doc.ents = spans (spaCy): spans that share a token are refused with an   *)
(* error before anything is written; otherwise the entities read back in    *)
(* token order.                                                             *)
(***************************************************************************)
SetEntsRaises(spans) ==
    \E i, j \in 1..Len(spans) : i # j /\ Overlap(spans[i], spans[j])

\* variant: the new spans are added to the entities already there
SetEntsMerging(old, spans) == SortedByStart(old \o spans)

SetEnts(old, spans) == SortedByStart(spans)

(***************************************************************************)
(* __call__, one action per way it can end.                                 *)
(***************************************************************************)
CallCompletes ==
    /\ comp.state = "built"
    /\ ncalls < MaxCalls
    /\ \E order \in IterOrders(EntSents(ents)) :
         LET scopes == Scopes(comp, ents, order)
             spans == Process(comp, doc, scopes)
         IN  /\ ~ProcessRaises(doc, scopes)
             /\ ~SetEntsRaises(spans)
             /\ visited' = scopes
             /\ returned' = spans
             /\ ents' = SetEnts(ents, spans)
    /\ prevEnts' = ents
    /\ outcome' = "done"
    /\ ncalls' = ncalls + 1
    /\ UNCHANGED <<cfg, comp, doc>>

CallProcessRaises ==
    /\ comp.state = "built"
    /\ ncalls < MaxCalls
    /\ \E order \in IterOrders(EntSents(ents)) :
         LET scopes == Scopes(comp, ents, order)
         IN  /\ ProcessRaises(doc, scopes)
             /\ visited' = SubSeq(scopes, 1, 1)
    /\ returned' = <<>>
    /\ prevEnts' = ents
    /\ outcome' = "process_raised"
    /\ ncalls' = ncalls + 1
    /\ UNCHANGED <<cfg, comp, doc, ents>>

CallSetEntsRaises ==
    /\ comp.state = "built"
    /\ ncalls < MaxCalls
    /\ \E order \in IterOrders(EntSents(ents)) :
         LET scopes == Scopes(comp, ents, order)
             spans == Process(comp, doc, scopes)
         IN  /\ ~ProcessRaises(doc, scopes)
             /\ SetEntsRaises(spans)
             /\ visited' = scopes
             /\ returned' = spans
    /\ prevEnts' = ents
    /\ outcome' = "set_ents_raised"
    /\ ncalls' = ncalls + 1
    /\ UNCHANGED <<cfg, comp, doc, ents>>

(***************************************************************************)
(* Inputs.                                                                  *)
(***************************************************************************)
NoneArg == [kind |-> "none"]
StrArg(s) == [kind |-> "str", s |-> s]
ListArg(l) == [kind |-> "list", l |-> l]
DictArg(d) == [kind |-> "dict", d |-> d]

TermsArg == DictArg([k \in {"drug"} |-> StrArg("aspirin")])
RegexArg == DictArg([k \in {"dose"} |-> ListArg(<<"\\d+mg">>)])

\* d is a document on which the two engines report at most n matches in
\* all, each on one of `ranges`, or a document on which an engine raises
IsDoc(d, ranges, n) ==
    \/ \E a \in 0..n : \E b \in 0..(n - a) :
         \E t \in [1..a -> {MkSpan("drug", x[1], x[2]) : x \in ranges}] :
           \E r \in [1..b -> {MkSpan("dose", x[1], x[2]) : x \in ranges}] :
             d = [termMatches |-> t, regexMatches |-> r, raises |-> FALSE]
    \/ d = [termMatches |-> <<>>, regexMatches |-> <<>>, raises |-> TRUE]

\* pre-existing entities: one-token spans on some of the first two tokens
\* (one sentence) and the last token (another sentence)
RECURSIVE EntsOn(_)
EntsOn(E) ==
    IF E = {} THEN <<>>
    ELSE LET i == CHOOSE x \in E : \A y \in E : x <= y
         IN  <<MkSpan("drug", i, i + 1)>> \o EntsOn(E \ {i})

InitialEnts ==
    {EntsOn(E) : E \in {{}, {0}, {0, 1}, {NTokens - 1}, {0, NTokens - 1},
                        {0, 1, NTokens - 1}}}

ProcCfgs ==
    {[terms |-> TermsArg, regex |-> RegexArg, attr |-> StrArg(TEXT),
      pipe_names |-> {"normaliser"}, fuzzy |-> fz, filter_matches |-> fm,
      on_ents_only |-> oe] : fz \in BOOLEAN, fm \in BOOLEAN, oe \in BOOLEAN}

Init ==
    /\ cfg \in ProcCfgs
    /\ comp = Constructed(cfg)
    /\ IsDoc(doc, {r \in Ranges : r[2] <= MatchEnd}, MaxCand)
    /\ ents \in InitialEnts
    /\ prevEnts = <<>>
    /\ visited = <<>>
    /\ returned = <<>>
    /\ outcome = "none"
    /\ ncalls = 0

Next == CallCompletes \/ CallProcessRaises \/ CallSetEntsRaises

Spec == Init /\ [][Next]_vars

(***************************************************************************)
(* The overlap filter on its own: whole-document mode, filter_matches on,   *)
(* matches anywhere on the document.  With the filter on process never      *)
(* returns spans that doc.ents refuses.                                     *)
(***************************************************************************)
FilterCfg ==
    [terms |-> TermsArg, regex |-> RegexArg, attr |-> StrArg(TEXT),
     pipe_names |-> {"normaliser"}, fuzzy |-> FALSE, filter_matches |-> TRUE,
     on_ents_only |-> FALSE]

InitFilter ==
    /\ cfg = FilterCfg
    /\ comp = Constructed(cfg)
    /\ IsDoc(doc, Ranges, FilterCand)
    /\ ents = <<>>
    /\ prevEnts = <<>>
    /\ visited = <<>>
    /\ returned = <<>>
    /\ outcome = "none"
    /\ ncalls = 0

NextFilter == CallCompletes \/ CallProcessRaises

SpecFilter == InitFilter /\ [][NextFilter]_vars

(***************************************************************************)
(* Construction on its own: every shape of the attr argument.               *)
(***************************************************************************)
AttrValues ==
    {TEXT, NORM, LOWER, <<"t", "e", "x", "t">>, <<"n", "o", "r", "m">>,
     <<"N", "o", "r", "m">>, <<"l", "o", "w", "e", "r">>}

DictAttrValues == {TEXT, <<"n", "o", "r", "m">>, LOWER}

AttrKeys == {TERM_ATTR, "dose", "date", "other"}

AttrArgs ==
    {StrArg(v) : v \in AttrValues}
    \cup {DictArg(d) : d \in UNION {[K -> DictAttrValues] : K \in SUBSET AttrKeys}}

RegexArgTwo ==
    DictArg([k \in {"dose", "date"} |->
                IF k = "dose" THEN StrArg("\\d+mg") ELSE ListArg(<<"\\d+/\\d+">>)])

BuildCfgs ==
    {[terms |-> t, regex |-> r, attr |-> a, pipe_names |-> pn, fuzzy |-> fz,
      filter_matches |-> TRUE, on_ents_only |-> FALSE] :
        t \in {NoneArg, TermsArg}, r \in {NoneArg, RegexArg, RegexArgTwo},
        a \in AttrArgs, pn \in {{"sentences"}, {"sentences", "normaliser"}},
        fz \in BOOLEAN}

InitNew ==
    /\ cfg \in BuildCfgs
    /\ comp = NewComp
    /\ doc = [termMatches |-> <<>>, regexMatches |-> <<>>, raises |-> FALSE]
    /\ ents = <<>>
    /\ prevEnts = <<>>
    /\ visited = <<>>
    /\ returned = <<>>
    /\ outcome = "none"
    /\ ncalls = 0

NextConstruct == Construct

SpecConstruct == InitNew /\ [][NextConstruct]_vars

(***************************************************************************)
(* Properties.                                                              *)
(***************************************************************************)
RegexLabels(c) == IF c.regex.kind = "none" THEN {} ELSE DOMAIN c.regex.d

ResolvedKeys(c) == RegexLabels(c) \cup {TERM_ATTR}

\* the upper-case form of each attribute value the configurations use
UpperOf(v) ==
    CASE v \in {TEXT, <<"t", "e", "x", "t">>} -> TEXT
      [] v \in {NORM, <<"n", "o", "r", "m">>, <<"N", "o", "r", "m">>} -> NORM
      [] OTHER -> LOWER

\* the value a key of the attribute map is meant to resolve to
ExpectedAttr(c, k) ==
    IF c.attr.kind = "str" THEN UpperOf(c.attr.s)
    ELSE IF k \in DOMAIN c.attr.d THEN UpperOf(c.attr.d[k]) ELSE NORM

Unsupported(c) == \E k \in ResolvedKeys(c) : ExpectedAttr(c, k) \notin {TEXT, NORM}

\* process returned in the last call
Processed == outcome \in {"done", "set_ents_raised"}

SpanLen(sp) == sp.end - sp.start

LastCandidates == Candidates(comp, doc, visited)

\* C1: a configuration with a resolved attribute value outside {TEXT, NORM},
\* for a regex label or for 'term_attr', given as a scalar or in a mapping,
\* makes construction fail before a matcher is created or a pattern
\* registered.
C1_UnsupportedAttrRejected ==
    (comp.state # "new" /\ Unsupported(cfg))
        => /\ comp.state = "error"
           /\ comp.matcher = "none"
           /\ comp.patterns = NoPatterns

\* C7: when every resolved attribute is supported, one of them is NORM and
\* no 'normaliser' stage is in the pipeline, construction logs the
\* 'no normaliser' warning and succeeds, for a scalar attr and for a mapping.
C7_NoNormaliserWarned ==
    (/\ comp.state # "new"
     /\ ~Unsupported(cfg)
     /\ \E k \in ResolvedKeys(cfg) : ExpectedAttr(cfg, k) = NORM
     /\ "normaliser" \notin cfg.pipe_names)
        => /\ comp.state = "built"
           /\ "no_normaliser" \in comp.warnings

\* C8: the resolved attribute map is defined on every regex label and on
\* 'term_attr': a scalar attr gives each its upper-cased value, a mapping
\* gives each key it holds its upper-cased value and every other key NORM.
C8_AttrMapTotal ==
    comp.state = "built"
        => /\ ResolvedKeys(cfg) \subseteq DOMAIN comp.attr
           /\ \A k \in ResolvedKeys(cfg) : comp.attr[k] = ExpectedAttr(cfg, k)

C8_Witness ==
    /\ comp.state = "built"
    /\ cfg.attr.kind = "dict"
    /\ \E k \in ResolvedKeys(cfg) : k \notin DOMAIN cfg.attr.d
    /\ \E k \in RegexLabels(cfg) :
         k \in DOMAIN cfg.attr.d /\ cfg.attr.d[k] = <<"n", "o", "r", "m">>

\* C2: with filter_matches on, no two spans that process returns share a
\* token, in whole-document and in entity-scoped mode.
C2_OutputDisjoint ==
    (Processed /\ comp.filter_matches)
        => \A i, j \in 1..Len(returned) :
              i # j => ~Overlap(returned[i], returned[j])

C2_Witness ==
    /\ Processed
    /\ comp.filter_matches
    /\ comp.on_ents_only
    /\ Len(LastCandidates) = 2
    /\ Overlap(LastCandidates[1], LastCandidates[2])
    /\ Len(returned) = 1

\* candidate i of cands goes before candidate j in the filter's order: it
\* starts first, or on the same token and is earlier in the candidate list
StartsFirst(cands, i, j) ==
    \/ cands[i].start < cands[j].start
    \/ cands[i].start = cands[j].start /\ i < j

\* candidates i and j overlap each other and no other candidate
PairApart(cands, i, j) ==
    /\ Overlap(cands[i], cands[j])
    /\ \A k \in 1..Len(cands) :
          k \notin {i, j} => ~Overlap(cands[k], cands[i]) /\ ~Overlap(cands[k], cands[j])

\* C3 as stated: with filter_matches on, every candidate left out overlaps
\* an output span that is strictly longer, or as long and earlier in the
\* candidate list.
C3_LeftOutByLongerOrEarlier ==
    (Processed /\ comp.filter_matches)
        => LET cands == LastCandidates
               out == Range(returned)
           IN  \A i \in 1..Len(cands) :
                  cands[i] \notin out
                    => \E o \in out :
                          /\ Overlap(o, cands[i])
                          /\ \/ SpanLen(o) > SpanLen(cands[i])
                             \/ /\ SpanLen(o) = SpanLen(cands[i])
                                /\ \E j \in 1..(i - 1) : cands[j] = o

\* C3 amended: with filter_matches on, every candidate left out overlaps an
\* output span that is strictly longer, or as long and starting at a smaller
\* token index, or on the same token range and earlier in the candidate
\* list; and of two overlapping candidates of equal length that overlap no
\* other candidate, the one that starts first (on the same range, the one
\* earlier in the candidate list) is kept and the other is left out.
C3_LeftOutByLongerOrLeftmost ==
    (Processed /\ comp.filter_matches)
        => LET cands == LastCandidates
               out == Range(returned)
           IN  /\ \A i \in 1..Len(cands) :
                     cands[i] \notin out
                       => \E o \in out :
                             /\ Overlap(o, cands[i])
                             /\ \/ SpanLen(o) > SpanLen(cands[i])
                                \/ /\ SpanLen(o) = SpanLen(cands[i])
                                   /\ o.start < cands[i].start
                                \/ /\ o.start = cands[i].start
                                   /\ o.end = cands[i].end
                                   /\ \E j \in 1..(i - 1) : cands[j] = o
               /\ \A i, j \in 1..Len(cands) :
                     (/\ i # j
                      /\ SpanLen(cands[i]) = SpanLen(cands[j])
                      /\ StartsFirst(cands, i, j)
                      /\ PairApart(cands, i, j))
                        => /\ cands[i] \in out
                           /\ Len(SelectSeq(returned,
                                 LAMBDA x : x \in {cands[i], cands[j]})) = 1

\* three candidates of equal length in a chain, listed right to left: the
\* leftmost, last in the list, is kept, the middle one is left out, and the
\* rightmost is kept although it overlaps the middle one and starts later
C3_Witness ==
    /\ Processed
    /\ comp.filter_matches
    /\ Len(LastCandidates) = 3
    /\ \A i \in 1..3 : SpanLen(LastCandidates[i]) = 2
    /\ LastCandidates[1].start = 2
    /\ LastCandidates[2].start = 1
    /\ LastCandidates[3].start = 0
    /\ returned = <<LastCandidates[3], LastCandidates[1]>>

\* C4: with filter_matches off, process returns the spans of the exact/fuzzy
\* matches, in the engine's order scope after scope, followed by the regex
\* spans in the same order: nothing dropped, repeated or moved.
C4_UnfilteredIsConcatenation ==
    (Processed /\ ~comp.filter_matches)
        => returned =
              Concat([i \in 1..Len(visited) |-> InScope(doc.termMatches, visited[i])])
              \o Concat([i \in 1..Len(visited) |-> InScope(doc.regexMatches, visited[i])])

C4_Witness ==
    /\ Processed
    /\ ~comp.filter_matches
    /\ comp.on_ents_only
    /\ Len(visited) = 2
    /\ Len(returned) = 2
    /\ returned[1].label = "drug"
    /\ returned[2].label = "dose"
    /\ returned[2].start < returned[1].start

\* C5: a call that completes leaves exactly the spans process returned as
\* the document's annotations, and an earlier annotation survives only if it
\* was found again; a call that fails leaves the annotations as they were.
C5_AllOrNothing ==
    /\ outcome = "done"
          => /\ Range(ents) = Range(returned)
             /\ Len(ents) = Len(returned)
             /\ \A i \in 1..Len(prevEnts) :
                   prevEnts[i] \in Range(ents) => prevEnts[i] \in Range(returned)
    /\ outcome \in {"process_raised", "set_ents_raised"} => ents = prevEnts

C5_Witness ==
    /\ outcome = "done"
    /\ ncalls = 1
    /\ \E i \in 1..Len(prevEnts) : prevEnts[i] \notin Range(ents)
    /\ \E i \in 1..Len(prevEnts) : prevEnts[i] \in Range(ents)

\* the elements of a list in the order of their first occurrence
RECURSIVE FirstOccurrences(_)
FirstOccurrences(list) ==
    IF list = <<>> THEN <<>>
    ELSE LET rest == FirstOccurrences(SubSeq(list, 1, Len(list) - 1))
             x == list[Len(list)]
         IN  IF x \in Range(rest) THEN rest ELSE Append(rest, x)

\* C6 as stated: in entity-scoped mode the sentences scanned are the
\* sentences of the pre-existing annotations with repeats removed, in the
\* order in which they were first met.
C6_ScannedInDiscoveryOrder ==
    (Processed /\ comp.on_ents_only)
        => visited = FirstOccurrences(EntSents(prevEnts))

\* C6 amended: in entity-scoped mode each distinct sentence of the
\* pre-existing annotations is scanned exactly once, and no other sentence.
C6_EachSentenceOnce ==
    (Processed /\ comp.on_ents_only)
        => /\ Range(visited) = Range(EntSents(prevEnts))
           /\ \A i, j \in 1..Len(visited) : i # j => visited[i] # visited[j]

C6_Witness ==
    /\ Processed
    /\ comp.on_ents_only
    /\ Len(prevEnts) = 3
    /\ Len(visited) = 2
    /\ visited # FirstOccurrences(EntSents(prevEnts))

\* C9: in entity-scoped mode a document without annotations is not scanned
\* and process returns no span, whatever the engines would find on it.
C9_NoEntsNoSpans ==
    (outcome # "none" /\ comp.on_ents_only /\ prevEnts = <<>>)
        => /\ visited = <<>>
           /\ returned = <<>>
           /\ outcome = "done"

C9_Witness ==
    /\ outcome = "done"
    /\ ncalls = 1
    /\ comp.on_ents_only
    /\ prevEnts = <<>>
    /\ doc.termMatches # <<>>
    /\ doc.regexMatches # <<>>

\* C10: a second call of the component leaves the set of annotations the
\* first call left.
C10_Idempotent ==
    ncalls >= 2 => Range(ents) = Range(prevEnts)

C10_Witness ==
    /\ ncalls = 2
    /\ outcome = "done"
    /\ comp.on_ents_only
    /\ Len(ents) = 2
    /\ Len(visited) = 1

====
